---- MODULE Spec2Model ----
(***************************************************************************)
(* The Stockfish adapter of Cheesse: stockfish-engine.js (parseScore,      *)
(* analyzePosition) and the two engine endpoints of the Express server.    *)
(*                                                                         *)
(* Text is modelled at the granularity the code inspects it:               *)
(*   - an engine stdout chunk is a sequence of pieces, a piece being a     *)
(*     run of non-blank characters, " ", "\r" or "\n"; neighbouring        *)
(*     non-blank pieces are parts of one word, so that a chunk may end     *)
(*     inside a word;                                                      *)
(*   - a command written to the engine's stdin is a string;                *)
(*   - a score's display is a sequence of characters.                      *)
(* A nullable value is a sequence of length 0 (null/undefined) or 1.       *)
(***************************************************************************)
EXTENDS Integers, Sequences, FiniteSets, TLC

VARIABLES
    installed,  \* fs.existsSync(resolveEnginePath())
    args,       \* <<>> before the request; <<a>>: analyzePosition was called with a
    spawns,     \* number of child_process.spawn calls
    session,    \* the closure of one analyzePosition call and its engine handle
    now,        \* milliseconds elapsed since the session armed its timer
    responses,  \* HTTP responses sent for the analyze request
    script,     \* a scripted engine: everything it will write to stdout, as pieces
    cursor,     \* how many pieces of the script have been delivered
    peer,       \* a second analyzePosition call running at the same time
    lastStderr, \* the last chunk the engine wrote to stderr, and whether the
                \* session was resolved when it arrived
    incoming,   \* <<body>>: the analyze request that will arrive; <<>>: any may
    statusReply,    \* the last response of GET /api/engine/status
    stockfishPath,  \* process.env.STOCKFISH_PATH
    app,        \* the client: App's state hooks and its gameRef
    requests    \* the client: requestMove calls awaiting fetch, oldest first

httpVars == <<incoming, statusReply, stockfishPath>>
clientVars == <<app, requests>>
vars == <<installed, args, spawns, session, now, responses, script, cursor,
          peer, lastStderr, httpVars, clientVars>>

None == <<>>
Some(v) == <<v>>

(***************************** bounds **************************************)
MaxNum == 130       \* integers an engine line may carry lie in -MaxNum..MaxNum
MaxWrites == 4      \* writes to the engine's stdin that are followed
MaxBuffer == 3      \* pieces of an unterminated line that are followed
TickMs == 1050      \* granularity of the clock
MaxTime == 2100     \* the clock is followed up to here

(************************ program constants ********************************)
DefaultMovetime == 600
MinTimeoutMs == 250
TimeoutSlackMs == 1500
StatusOk == 200
MaxTimerMs == 2147483647    \* the longest delay a Node.js timer takes
StatusUnavailable == 503

NotFoundMessage == "Stockfish engine not found. Download it or set STOCKFISH_PATH."
TimeoutMessage == "Stockfish timed out."
SpawnErrorMessage == "spawn stockfish.exe EACCES"

(************************** numbers as text ********************************)
Abs(n) == IF n < 0 THEN -n ELSE n
Max(a, b) == IF a >= b THEN a ELSE b
MinOf(S) == CHOOSE x \in S : \A y \in S : x <= y

IntRange == (-MaxNum)..MaxNum
\* the words matching -?\d+ and \d+ (canonical decimal numerals)
IntTokens == {ToString(n) : n \in IntRange}
NatTokens == {ToString(n) : n \in 0..MaxNum}
\* Number.parseInt(word, 10) on such a word
ParseInt(word) == CHOOSE n \in IntRange : ToString(n) = word

DigitChar == [d \in 0..9 |-> ToString(d)]
RECURSIVE Digits(_)
Digits(n) == IF n < 10 THEN <<DigitChar[n]>>
             ELSE Digits(n \div 10) \o <<DigitChar[n % 10]>>
\* `${value}` of an integer, as characters
IntChars(v) == (IF v < 0 THEN <<"-">> ELSE <<>>) \o Digits(Abs(v))
\* (value / 100).toFixed(2), as characters
ToFixed2(value) ==
    LET a == Abs(value)
    IN  (IF value < 0 THEN <<"-">> ELSE <<>>)
        \o Digits(a \div 100) \o <<".">>
        \o <<DigitChar[(a % 100) \div 10], DigitChar[a % 10]>>

(****************************** parseScore *********************************)
\* line.match(/\bscore\s+(cp|mate)\s+(-?\d+)/): index of the leftmost match
ScoreMatch(line) ==
    LET I == {i \in 1..(Len(line) - 2) :
                /\ line[i] = "score"
                /\ line[i + 1] \in {"cp", "mate"}
                /\ line[i + 2] \in IntTokens}
    IN  IF I = {} THEN None ELSE Some(MinOf(I))

\* parseScore forgetting the '+' of a non-negative centipawn score
parseScoreNoSign(line) ==
    LET m == ScoreMatch(line)
    IN  IF m = None THEN None
        ELSE LET type == line[m[1] + 1]
                 value == ParseInt(line[m[1] + 2])
                 display == IF type = "cp" THEN ToFixed2(value)
                            ELSE <<"M">> \o IntChars(value)
             IN  Some([type |-> type, value |-> value, display |-> display])

parseScore(line) ==
    LET m == ScoreMatch(line)
    IN  IF m = None THEN None
        ELSE LET type == line[m[1] + 1]
                 value == ParseInt(line[m[1] + 2])
                 display == IF type = "cp"
                            THEN (IF value >= 0 THEN <<"+">> ELSE <<>>) \o ToFixed2(value)
                            ELSE <<"M">> \o IntChars(value)
             IN  Some([type |-> type, value |-> value, display |-> display])

(************************** stdout framing **********************************)
IsBlank(piece) == piece \in {" ", "\r", "\n"}

\* one "\r" right before the "\n" belongs to the separator /\r?\n/
StripCR(line) ==
    IF Len(line) > 0 /\ line[Len(line)] = "\r" THEN SubSeq(line, 1, Len(line) - 1)
    ELSE line

RECURSIVE SplitFrom(_, _, _, _)
SplitFrom(text, i, cur, acc) ==
    IF i > Len(text) THEN Append(acc, cur)
    ELSE IF text[i] = "\n" THEN SplitFrom(text, i + 1, <<>>, Append(acc, StripCR(cur)))
    ELSE SplitFrom(text, i + 1, Append(cur, text[i]), acc)
\* buffer.split(/\r?\n/): at least one element, the last being the unterminated rest
Split(text) == SplitFrom(text, 1, <<>>, <<>>)

RECURSIVE TrimLeft(_)
TrimLeft(line) ==
    IF Len(line) > 0 /\ IsBlank(line[1]) THEN TrimLeft(Tail(line)) ELSE line
RECURSIVE TrimRight(_)
TrimRight(line) ==
    IF Len(line) > 0 /\ IsBlank(line[Len(line)])
    THEN TrimRight(SubSeq(line, 1, Len(line) - 1)) ELSE line
\* String.prototype.trim
Trim(line) == TrimRight(TrimLeft(line))

\* the two bytes of a character UTF-8 encodes in two bytes, the character, and
\* U+FFFD, which stands in for bytes that decode to nothing
LeadByte == "0xC3"
ContByte == "0xA9"
TwoByteChar == "e-acute"
Replacement == "U+FFFD"

RECURSIVE toString(_)
\* chunk.toString(): the bytes of one chunk decoded as UTF-8, on their own
toString(chunk) ==
    IF chunk = <<>> THEN <<>>
    ELSE IF Len(chunk) >= 2 /\ chunk[1] = LeadByte /\ chunk[2] = ContByte
         THEN <<TwoByteChar>> \o toString(SubSeq(chunk, 3, Len(chunk)))
    ELSE IF chunk[1] \in {LeadByte, ContByte}
         THEN <<Replacement>> \o toString(Tail(chunk))
    ELSE <<chunk[1]>> \o toString(Tail(chunk))

RECURSIVE WordsFrom(_, _, _, _)
WordsFrom(line, i, cur, acc) ==
    IF i > Len(line) THEN (IF cur = "" THEN acc ELSE Append(acc, cur))
    ELSE IF IsBlank(line[i])
         THEN WordsFrom(line, i + 1, "", IF cur = "" THEN acc ELSE Append(acc, cur))
    ELSE WordsFrom(line, i + 1, cur \o line[i], acc)
\* the words of a line, as the handlers' patterns see them (\s+ between two)
Words(line) == WordsFrom(line, 1, "", <<>>)

RECURSIVE Join(_, _)
\* Array.prototype.join
Join(words, sep) ==
    IF words = <<>> THEN ""
    ELSE IF Len(words) = 1 THEN words[1]
    ELSE words[1] \o sep \o Join(Tail(words), sep)

RECURSIVE Concat(_)
Concat(pieces) == IF pieces = <<>> THEN "" ELSE pieces[1] \o Concat(Tail(pieces))

\* String.prototype.startsWith on the first word of a trimmed line
WordSuffixes == {"", "xyz"}
StartsWith(line, prefix) ==
    Len(line) > 0 /\ line[1] \in {prefix \o s : s \in WordSuffixes}

(****************************** the session ********************************)
NoSession ==
    [resolved |-> FALSE, buffer |-> <<>>,
     latestScore |-> None, latestDepth |-> None, latestNodes |-> None, latestPv |-> None,
     timerArmed |-> FALSE, timeoutMs |-> 0,
     stdoutOn |-> FALSE, stderrOn |-> FALSE,
     stdin |-> <<>>, kills |-> 0, settled |-> <<>>]

Resolution(payload) ==
    [kind |-> "resolve", via |-> "bestmove", message |-> "", payload |-> Some(payload)]
Rejection(via, message) ==
    [kind |-> "reject", via |-> via, message |-> message, payload |-> None]

write(s, data) == [s EXCEPT !.stdin = Append(@, data)]

cleanup(s) == [s EXCEPT !.timerArmed = FALSE, !.stdoutOn = FALSE, !.stderrOn = FALSE]

kill(s) == [s EXCEPT !.kills = @ + 1]

\* finish without its resolved guard
finishUnguarded(s, payload) ==
    LET s1 == [s EXCEPT !.resolved = TRUE]
        s2 == kill(cleanup(s1))
    IN  [s2 EXCEPT !.settled = Append(@, Resolution(payload))]

finish(s, payload) ==
    IF s.resolved THEN s
    ELSE LET s1 == [s EXCEPT !.resolved = TRUE]
             s2 == kill(cleanup(s1))
         IN  [s2 EXCEPT !.settled = Append(@, Resolution(payload))]

\* JavaScript truthiness of the depth argument
Truthy(depth) == depth # None /\ depth[1] # 0

\* the position command with an unconditional moves clause
positionCommandAlwaysMoves(a) ==
    LET moveList == " moves " \o Join(a.moves, " ")
    IN  IF a.fen = "startpos" THEN "position startpos" \o moveList \o "\n"
        ELSE "position fen " \o a.fen \o moveList \o "\n"

positionCommand(a) ==
    LET moveList == IF Len(a.moves) > 0 THEN " moves " \o Join(a.moves, " ") ELSE ""
    IN  IF a.fen = "startpos" THEN "position startpos" \o moveList \o "\n"
        ELSE "position fen " \o a.fen \o moveList \o "\n"

goCommand(a) ==
    IF Truthy(a.depth) THEN "go depth " \o ToString(a.depth[1]) \o "\n"
    ELSE "go movetime " \o ToString(a.movetime) \o "\n"

\* line.match(/\bdepth\s+(\d+)/), line.match(/\bnodes\s+(\d+)/)
NatField(line, key) ==
    LET I == {i \in 1..(Len(line) - 1) : line[i] = key /\ line[i + 1] \in NatTokens}
    IN  IF I = {} THEN None ELSE Some(ParseInt(line[MinOf(I) + 1]))

\* line.match(/\bpv\s+(.+)$/)
PvField(line) ==
    LET I == {i \in 1..(Len(line) - 1) : line[i] = "pv"}
    IN  IF I = {} THEN None
        ELSE Some(Join(SubSeq(line, MinOf(I) + 1, Len(line)), " "))

\* the info branch storing whatever this line matched, null included
handleInfoReset(s, line) ==
    [s EXCEPT !.latestScore = parseScore(line),
              !.latestDepth = NatField(line, "depth"),
              !.latestNodes = NatField(line, "nodes"),
              !.latestPv = PvField(line)]

handleInfo(s, line) ==
    LET score == parseScore(line)
        depthMatch == NatField(line, "depth")
        nodesMatch == NatField(line, "nodes")
        pvMatch == PvField(line)
    IN  [s EXCEPT !.latestScore = IF score # None THEN score ELSE @,
                  !.latestDepth = IF depthMatch # None THEN depthMatch ELSE @,
                  !.latestNodes = IF nodesMatch # None THEN nodesMatch ELSE @,
                  !.latestPv = IF pvMatch # None THEN pvMatch ELSE @]

\* line.match(/^bestmove\s+(\S+)(?:\s+ponder\s+(\S+))?/)
handleBestmove(s, line) ==
    LET matched == line[1] = "bestmove" /\ Len(line) >= 2
        bestmove == IF matched THEN Some(line[2]) ELSE None
        ponder == IF matched /\ Len(line) >= 4 /\ line[3] = "ponder"
                  THEN Some(line[4]) ELSE None
    IN  finish(s, [bestmove |-> bestmove, ponder |-> ponder,
                   evaluation |-> s.latestScore, depth |-> s.latestDepth,
                   nodes |-> s.latestNodes, pv |-> s.latestPv])

\* handleLine reading every line no other branch takes as an info line
handleLineAnyInfo(s, a, line) ==
    IF line = <<>> THEN s
    ELSE IF line = <<"uciok">> THEN write(s, "isready\n")
    ELSE IF line = <<"readyok">> THEN write(write(s, positionCommand(a)), goCommand(a))
    ELSE IF StartsWith(line, "bestmove") THEN handleBestmove(s, line)
    ELSE handleInfo(s, line)

handleLine(s, a, line) ==
    IF line = <<>> THEN s
    ELSE IF line = <<"uciok">> THEN write(s, "isready\n")
    ELSE IF line = <<"readyok">> THEN write(write(s, positionCommand(a)), goCommand(a))
    ELSE IF StartsWith(line, "info") THEN handleInfo(s, line)
    ELSE IF StartsWith(line, "bestmove") THEN handleBestmove(s, line)
    ELSE s

RECURSIVE forEachLine(_, _, _)
\* lines.forEach((line) => handleLine(line.trim()))
forEachLine(s, a, lines) ==
    IF lines = <<>> THEN s
    ELSE forEachLine(handleLine(s, a, Words(Trim(Head(lines)))), a, Tail(lines))

\* engine.stdout.on('data', ...)
onStdoutData(s, a, chunk) ==
    LET lines == Split(s.buffer \o toString(chunk))
        s1 == [s EXCEPT !.buffer = lines[Len(lines)]]
    IN  forEachLine(s1, a, SubSeq(lines, 1, Len(lines) - 1))

\* the stderr handler failing the session on whatever arrives
onStderrDataAnyText(s, chunk) ==
    IF ~s.resolved
    THEN LET s1 == kill(cleanup([s EXCEPT !.resolved = TRUE]))
         IN  [s1 EXCEPT !.settled =
                     Append(@, Rejection("stderr", Concat(Trim(toString(chunk)))))]
    ELSE s

\* engine.stderr.on('data', ...)
onStderrData(s, chunk) ==
    LET message == Concat(Trim(toString(chunk)))
    IN  IF ~s.resolved /\ message # ""
        THEN LET s1 == [s EXCEPT !.resolved = TRUE]
                 s2 == kill(cleanup(s1))
             IN  [s2 EXCEPT !.settled = Append(@, Rejection("stderr", message))]
        ELSE s

\* the 'error' handler killing the engine like the stderr handler does
onErrorKilling(s, message) ==
    IF ~s.resolved
    THEN LET s1 == kill(cleanup([s EXCEPT !.resolved = TRUE]))
         IN  [s1 EXCEPT !.settled = Append(@, Rejection("error", message))]
    ELSE s

\* engine.on('error', ...)
onError(s, message) ==
    IF ~s.resolved
    THEN LET s1 == cleanup([s EXCEPT !.resolved = TRUE])
         IN  [s1 EXCEPT !.settled = Append(@, Rejection("error", message))]
    ELSE s

\* the setTimeout callback
onTimeout(s) ==
    LET s0 == [s EXCEPT !.timerArmed = FALSE]
    IN  IF ~s0.resolved
        THEN LET s1 == kill([s0 EXCEPT !.resolved = TRUE])
             IN  [s1 EXCEPT !.settled = Append(@, Rejection("timeout", TimeoutMessage))]
        ELSE s0

\* the timeout without its floor
timeoutForNoFloor(movetime) == movetime + TimeoutSlackMs

timeoutFor(movetime) == Max(MinTimeoutMs, movetime + TimeoutSlackMs)

\* setTimeout(callback, timeoutMs): a delay above 2^31 - 1 ms is set to 1 ms
\* (timeoutMs is never below 1)
timerDelay(movetime) ==
    IF movetime > MaxTimerMs - TimeoutSlackMs THEN 1 ELSE timeoutFor(movetime)

\* the executor never arming its timer
startSessionNoTimer(a) ==
    [NoSession EXCEPT !.timeoutMs = timerDelay(a.movetime),
                      !.stdoutOn = TRUE, !.stderrOn = TRUE,
                      !.stdin = <<"uci\n">>]

\* the Promise executor of analyzePosition, engine installed
startSession(a) ==
    [NoSession EXCEPT !.timerArmed = TRUE, !.timeoutMs = timerDelay(a.movetime),
                      !.stdoutOn = TRUE, !.stderrOn = TRUE,
                      !.stdin = <<"uci\n">>]

\* the Promise executor of analyzePosition, engine missing
notFound ==
    [NoSession EXCEPT !.settled = <<Rejection("notfound", NotFoundMessage)>>]

(****************************** the inputs *********************************)
\* request body fields, as JSON values
Absent == [kind |-> "absent", text |-> <<>>, n |-> 0]
Str(text) == [kind |-> "string", text |-> text, n |-> 0]
Num(n) == [kind |-> "finite", text |-> <<>>, n |-> n]
Other == [kind |-> "other", text |-> <<>>, n |-> 0]      \* null, true, an object, 1e999

FenWords == <<"4k3/8/8/8/8/8/8/4K3", " ", "w", " ", "-", " ", "-", " ", "0", " ", "1">>
FenInputs ==
    {Absent, Other, Str(<<>>), Str(<<" ", " ">>), Str(<<"startpos">>),
     Str(FenWords), Str(<<" ">> \o FenWords \o <<" ">>)}
MovesInputs ==
    {[isArray |-> FALSE, items |-> <<>>],
     [isArray |-> TRUE, items |-> <<>>],
     [isArray |-> TRUE, items |-> <<"e2e4", "e7e5">>]}
DepthInputs == {Absent, Other, Num(0), Num(5)}
MovetimeInputs == {Absent, Other, Num(600), Num(-2000)}
Bodies ==
    [fen : FenInputs, moves : MovesInputs, depth : DepthInputs, movetime : MovetimeInputs]

\* engine output lines, as words
LUciok == <<"uciok">>
LReadyok == <<"readyok">>
LInfoA == <<"info", "depth", "1", "score", "cp", "35", "nodes", "100", "pv", "e2e4", "e7e5">>
LInfoB == <<"info", "depth", "2", "score", "cp", "-120", "nodes", "130", "pv", "d2d4">>
LInfoC == <<"info", "depth", "3", "score", "mate", "3">>
LBest == <<"bestmove", "e2e4", "ponder", "e7e5">>
LBestBare == <<"bestmovexyz">>
LOther == <<"id", "name", "Stockfish">>
LStray == <<"currmove", "depth", "9", "nodes", "7", "pv", "a2a3">>
LInfoWide == <<"info", "depth", "4", "pv", "e2e4", TwoByteChar>>
Lines == {LUciok, LReadyok, LInfoA, LInfoB, LBest, LBestBare, LOther}

RECURSIVE Wire(_)
\* the words of a line as the engine writes them, one blank between two
Wire(words) ==
    IF Len(words) <= 1 THEN words
    ELSE <<Head(words), " ">> \o Wire(Tail(words))
LF(line) == Wire(line) \o <<"\n">>
CRLF(line) == Wire(line) \o <<"\r", "\n">>
PartialBest == <<"bestmove", " ", "e2e4">>
StdoutChunks ==
    {LF(l) : l \in Lines}
    \cup {CRLF(LUciok), LF(LBest) \o LF(LInfoB), LF(LBest) \o LF(LReadyok)}
    \cup {PartialBest, <<"\n">>}

StderrChunks == {<<"Segmentation", " ", "fault", "\n">>, <<" ", "\n">>}

(***************************** the endpoint ********************************)
\* the endpoint passing fen on as it came
normalizeUntrimmed(body) ==
    [fen |-> IF body.fen.kind = "string" /\ Concat(Trim(body.fen.text)) # ""
             THEN Concat(body.fen.text) ELSE "startpos",
     moves |-> IF body.moves.isArray THEN body.moves.items ELSE <<>>,
     depth |-> IF body.depth.kind = "finite" THEN Some(body.depth.n) ELSE None,
     movetime |-> IF body.movetime.kind = "finite" THEN body.movetime.n ELSE DefaultMovetime]

\* POST /api/engine/analyze: the arguments handed to analyzePosition
normalize(body) ==
    [fen |-> IF body.fen.kind = "string" /\ Concat(Trim(body.fen.text)) # ""
             THEN Concat(Trim(body.fen.text)) ELSE "startpos",
     moves |-> IF body.moves.isArray THEN body.moves.items ELSE <<>>,
     depth |-> IF body.depth.kind = "finite" THEN Some(body.depth.n) ELSE None,
     movetime |-> IF body.movetime.kind = "finite" THEN body.movetime.n ELSE DefaultMovetime]

\* the outcome the awaiting handler sees: a promise keeps its first settlement
Outcome == Head(session.settled)

\* the handler answering 200 whatever the outcome
respondAlwaysOk(outcome) ==
    [status |-> StatusOk, result |-> outcome.payload, error |-> outcome.message]

\* res.json(result) / res.status(503).json({ error: error.message })
respond(outcome) ==
    IF outcome.kind = "resolve"
    THEN [status |-> StatusOk, result |-> outcome.payload, error |-> ""]
    ELSE [status |-> StatusUnavailable, result |-> None, error |-> outcome.message]

(******************************* actions ***********************************)
\* no second analyzePosition call
NoPeer == [args |-> None, session |-> NoSession, script |-> <<>>, cursor |-> 0]

\* useState(600) of whiteTime and blackTime
InitialSeconds == 600

\* App after its first render: the initial values of its state hooks, a new
\* Chess() (a position is the number of plies played), the status fetch under
\* way, and the dependencies the bot move effect has run with
MountedApp(throws) ==
    [ply |-> 0, fen |-> 0, playVsBot |-> FALSE, botSide |-> "black",
     engineLevel |-> "medium", available |-> FALSE, statusPending |-> TRUE,
     botThinking |-> FALSE, engineError |-> None,
     deps |-> <<0, FALSE, "black", "medium", FALSE>>,
     whiteTime |-> InitialSeconds, blackTime |-> InitialSeconds,
     currentPlayer |-> "white", status |-> "White to move.", timerRunning |-> TRUE,
     moveThrows |-> throws]     \* Chess.move throws on an illegal move (or returns null)

\* the server alone: no client is followed
NoClient == app = MountedApp(FALSE) /\ requests = <<>>

Init ==
    /\ installed \in BOOLEAN
    /\ args = None
    /\ spawns = 0
    /\ session = NoSession
    /\ now = 0
    /\ responses = <<>>
    /\ script = <<>>
    /\ cursor = 0
    /\ peer = NoPeer
    /\ lastStderr = None
    /\ incoming = None
    /\ statusReply = None
    /\ stockfishPath = None
    /\ NoClient

\* analyzePosition spawning before it looks at the engine's availability
PostAnalyzeSpawnFirst ==
    \E body \in (IF incoming = None THEN Bodies ELSE {incoming[1]}) :
        /\ args = None
        /\ args' = Some(normalize(body))
        /\ spawns' = spawns + 1
        /\ session' = IF installed THEN startSession(normalize(body)) ELSE notFound
        /\ UNCHANGED <<installed, now, responses, script, cursor,
                     peer, lastStderr, httpVars, clientVars>>

\* POST /api/engine/analyze up to the await: analyzePosition's executor has run
PostAnalyze ==
    \E body \in (IF incoming = None THEN Bodies ELSE {incoming[1]}) :
        /\ args = None
        /\ args' = Some(normalize(body))
        /\ IF installed
           THEN /\ spawns' = spawns + 1
                /\ session' = startSession(normalize(body))
           ELSE /\ spawns' = spawns
                /\ session' = notFound
        /\ UNCHANGED <<installed, now, responses, script, cursor,
                     peer, lastStderr, httpVars, clientVars>>

\* POST /api/engine/analyze after the await
Respond ==
    /\ session.settled # <<>>
    /\ responses = <<>>
    /\ responses' = Append(responses, respond(Outcome))
    /\ UNCHANGED <<installed, args, spawns, session, now, script, cursor,
                     peer, lastStderr, httpVars, clientVars>>

StdoutData ==
    \E chunk \in StdoutChunks :
        /\ spawns > 0
        /\ session.stdoutOn
        /\ LET s == onStdoutData(session, args[1], chunk)
           IN  /\ Len(s.stdin) <= MaxWrites
               /\ Len(s.buffer) <= MaxBuffer
               /\ session' = s
        /\ UNCHANGED <<installed, args, spawns, now, responses, script, cursor,
                     peer, lastStderr, httpVars, clientVars>>

StderrData ==
    \E chunk \in StderrChunks :
        /\ spawns > 0
        /\ session.stderrOn
        /\ session' = onStderrData(session, chunk)
        /\ lastStderr' = Some([chunk |-> chunk, late |-> session.resolved])
        /\ UNCHANGED <<installed, args, spawns, now, responses, script, cursor,
                     peer, httpVars, clientVars>>

ProcessError ==
    /\ spawns > 0
    /\ session' = onError(session, SpawnErrorMessage)
    /\ UNCHANGED <<installed, args, spawns, now, responses, script, cursor,
                     peer, lastStderr, httpVars, clientVars>>

Tick ==
    /\ spawns > 0
    /\ now < MaxTime
    /\ now' = now + TickMs
    /\ UNCHANGED <<installed, args, spawns, session, responses, script, cursor,
                     peer, lastStderr, httpVars, clientVars>>

Timeout ==
    /\ session.timerArmed
    /\ now >= session.timeoutMs
    /\ session' = onTimeout(session)
    /\ UNCHANGED <<installed, args, spawns, now, responses, script, cursor,
                     peer, lastStderr, httpVars, clientVars>>

Next ==
    \/ PostAnalyze
    \/ Respond
    \/ StdoutData
    \/ StderrData
    \/ ProcessError
    \/ Tick
    \/ Timeout

Spec == Init /\ [][Next]_vars

(*************************** a scripted engine ******************************)
MaxInfos == 2       \* info lines of a scripted search
MaxChunk == 12      \* pieces of a chunk the scripted engine writes

InfoLines == {LInfoA, LInfoB, LInfoC}
RECURSIVE InfoRuns(_)
\* the sequences of at most n info lines
InfoRuns(n) ==
    IF n = 0 THEN {<<>>}
    ELSE InfoRuns(n - 1)
         \cup {Append(r, l) : r \in {q \in InfoRuns(n - 1) : Len(q) = n - 1}, l \in InfoLines}

RECURSIVE Emit(_)
\* the byte stream of a run of lines, each ended by a newline
Emit(run) == IF run = <<>> THEN <<>> ELSE LF(Head(run)) \o Emit(Tail(run))

\* the bytes the engine writes, as pieces: its writes may end inside a word
\* and inside a character
Cut(piece) ==
    IF piece = "uciok" THEN <<"uci", "ok">>
    ELSE IF piece = "readyok" THEN <<"ready", "ok">>
    ELSE IF piece = "info" THEN <<"in", "fo">>
    ELSE IF piece = "bestmove" THEN <<"best", "move">>
    ELSE IF piece = "-120" THEN <<"-1", "20">>
    ELSE IF piece = "e7e5" THEN <<"e7", "e5">>
    ELSE IF piece = TwoByteChar THEN <<LeadByte, ContByte>>
    ELSE <<piece>>
RECURSIVE Pieces(_)
Pieces(stream) ==
    IF stream = <<>> THEN <<>> ELSE Cut(Head(stream)) \o Pieces(Tail(stream))

\* searches the engine reports on with lines that are not info lines
StrayRuns == {<<LStray>>, <<LInfoA, LStray>>, <<LOther, LInfoC>>}

\* 'uciok\r\n', readyok, the lines of the run, bestmove X ponder Y
SearchOf(run) == Pieces(CRLF(LUciok) \o Emit(<<LReadyok>> \o run \o <<LBest>>))
\* the searches that are scripted, and the script of each
InfoSearches == InfoRuns(MaxInfos)
Searches == InfoSearches \cup StrayRuns \cup {<<LInfoWide>>}
ScriptOf == [run \in Searches |-> SearchOf(run)]
SearchScripts == {ScriptOf[run] : run \in Searches}

\* one info line carrying a score, for every kind and value
ScoreLine(type, v) == <<"info", "depth", "1", "score", type, ToString(v)>>
ScoreScripts == {LF(ScoreLine(type, v)) : type \in {"cp", "mate"}, v \in IntRange}

\* the engine's next chunk, cut anywhere between two pieces
EngineEmit ==
    \E k \in 1..MaxChunk :
        /\ k <= Len(script) - cursor
        /\ spawns > 0
        /\ session.stdoutOn
        /\ cursor' = cursor + k
        /\ session' = onStdoutData(session, args[1], SubSeq(script, cursor + 1, cursor + k))
        /\ UNCHANGED <<installed, args, spawns, now, responses, script,
                     peer, lastStderr, httpVars, clientVars>>

\* the request POST /api/engine/analyze makes of an empty body
DefaultArgs ==
    normalize([fen |-> Absent, moves |-> [isArray |-> FALSE, items |-> <<>>],
               depth |-> Absent, movetime |-> Absent])

\* analyzePosition has been called and the engine has not written yet
InitScript ==
    /\ installed = TRUE
    /\ args = Some(DefaultArgs)
    /\ spawns = 1
    /\ session = startSession(DefaultArgs)
    /\ now = 0
    /\ responses = <<>>
    /\ script \in SearchScripts \cup ScoreScripts
    /\ cursor = 0
    /\ peer = NoPeer
    /\ lastStderr = None
    /\ incoming = None
    /\ statusReply = None
    /\ stockfishPath = None
    /\ NoClient

NextScript ==
    \/ EngineEmit
    \/ Respond
    \/ Tick
    \/ Timeout

ScriptSpec == InitScript /\ [][NextScript]_vars

\* the event loop runs a timer that is due, and time passes
LiveSpec == Spec /\ WF_vars(Tick) /\ WF_vars(Timeout)

\* the handler of POST /api/engine/analyze resumes once the promise is settled
ServeSpec == LiveSpec /\ WF_vars(Respond)

(************************* the requests, one by one ************************)
DEFAULT_ENGINE_PATH == <<"Backend", "bin", "stockfish.exe">>
STOCKFISH_WINDOWS_URL ==
    "https://github.com/official-stockfish/Stockfish/releases/download/sf_17.1/stockfish-windows-x86-64.zip"

\* process.env.STOCKFISH_PATH: unset, empty, or a path (as its segments)
EnginePaths == {None, Some(<<>>), Some(<<"opt", "engines", "sf17">>)}

resolveEnginePath ==
    IF stockfishPath # None /\ stockfishPath[1] # <<>>
    THEN stockfishPath[1] ELSE DEFAULT_ENGINE_PATH

getEngineStatus ==
    [available |-> installed, enginePath |-> resolveEnginePath,
     downloadUrl |-> STOCKFISH_WINDOWS_URL]

\* path.basename of a path that does not end with a separator
basename(p) == p[Len(p)]

\* GET /api/engine/status answering with the whole path
statusResponseFullPath ==
    [available |-> getEngineStatus.available,
     enginePath |-> Some(Join(getEngineStatus.enginePath, "/")),
     downloadUrl |-> getEngineStatus.downloadUrl]

\* the JSON GET /api/engine/status answers with
statusResponse ==
    LET status == getEngineStatus
    IN  [available |-> status.available,
         enginePath |-> IF status.available
                        THEN Some(basename(status.enginePath)) ELSE None,
         downloadUrl |-> status.downloadUrl]

GetStatus ==
    /\ statusReply' = Some(statusResponse)
    /\ UNCHANGED <<installed, args, spawns, session, now, responses, script, cursor,
                   peer, lastStderr, incoming, stockfishPath, clientVars>>

\* requests asking for a move time beyond what a timer takes
LongBodies ==
    [fen : {Absent}, moves : {[isArray |-> FALSE, items |-> <<>>]},
     depth : {Absent, Num(5)}, movetime : {Num(MaxTimerMs)}]

\* the server is up, and the analyze request that will arrive is fixed
InitRequest ==
    /\ installed \in BOOLEAN
    /\ args = None
    /\ spawns = 0
    /\ session = NoSession
    /\ now = 0
    /\ responses = <<>>
    /\ script = <<>>
    /\ cursor = 0
    /\ peer = NoPeer
    /\ lastStderr = None
    /\ incoming \in {Some(body) : body \in Bodies \cup LongBodies}
    /\ statusReply = None
    /\ stockfishPath \in EnginePaths
    /\ NoClient

\* the engine stays silent
NextRequest ==
    \/ PostAnalyze
    \/ Respond
    \/ Tick
    \/ Timeout
    \/ GetStatus

RequestSpec == InitRequest /\ [][NextRequest]_vars

(********************* a caller choosing its strings ***********************)
\* a fen and a move token holding a newline, as JSON strings may
MultilineFen == <<"8/8/8/8/8/8/8/8", " ", "w", "\n", "quit">>
MultilineMove == "e7e5\nsetoption name Threads value 512"
CallerBodies ==
    [fen : {Absent, Str(FenWords), Str(MultilineFen)},
     moves : {[isArray |-> FALSE, items |-> <<>>],
              [isArray |-> TRUE, items |-> <<"e2e4", "e7e5">>],
              [isArray |-> TRUE, items |-> <<"e2e4", MultilineMove>>]},
     depth : {Absent},
     movetime : {Absent, Num(600)}]

\* the server is up, and the analyze request that will arrive is fixed
InitCaller ==
    /\ installed = TRUE
    /\ args = None
    /\ spawns = 0
    /\ session = NoSession
    /\ now = 0
    /\ responses = <<>>
    /\ script = <<>>
    /\ cursor = 0
    /\ peer = NoPeer
    /\ lastStderr = None
    /\ incoming \in {Some(body) : body \in CallerBodies}
    /\ statusReply = None
    /\ stockfishPath = None
    /\ NoClient

NextCaller ==
    \/ PostAnalyze
    \/ Respond
    \/ StdoutData
    \/ Tick
    \/ Timeout

CallerSpec == InitCaller /\ [][NextCaller]_vars

(************************ two sessions at a time ***************************)
\* accumulators kept at module level: every call would read and write them
stdoutOfShared(own, other, a, chunk) ==
    LET s == onStdoutData(own, a, chunk)
    IN  <<s, [other EXCEPT !.latestScore = s.latestScore,
                           !.latestDepth = s.latestDepth,
                           !.latestNodes = s.latestNodes,
                           !.latestPv = s.latestPv]>>

\* engine, resolved, buffer and the latest* accumulators are locals of the
\* executor: a listener works on the variables of its own call, the other
\* call's variables are out of its reach
stdoutOf(own, other, a, chunk) == <<onStdoutData(own, a, chunk), other>>
timeoutOf(own, other) == <<onTimeout(own), other>>

\* a second request, for a depth and with a movetime of its own
PeerArgs ==
    normalize([fen |-> Absent, moves |-> [isArray |-> FALSE, items |-> <<>>],
               depth |-> Num(5), movetime |-> Num(-2000)])
PairRuns == {<<LInfoA>>, <<LInfoB, LInfoC>>}

\* the end of the line the engine is writing
LineEnd(sc, c) ==
    CHOOSE j \in (c + 1)..Len(sc) :
        sc[j] = "\n" /\ \A i \in (c + 1)..(j - 1) : sc[i] # "\n"

InitPair ==
    /\ installed = TRUE
    /\ args = Some(DefaultArgs)
    /\ spawns = 2
    /\ session = startSession(DefaultArgs)
    /\ now = 0
    /\ responses = <<>>
    /\ script \in {SearchOf(run) : run \in PairRuns}
    /\ cursor = 0
    /\ peer \in {[args |-> Some(PeerArgs), session |-> startSession(PeerArgs),
                   script |-> SearchOf(run), cursor |-> 0] : run \in PairRuns}
    /\ lastStderr = None
    /\ incoming = None
    /\ statusReply = None
    /\ stockfishPath = None
    /\ NoClient

\* the first call's engine writes its next line
FirstEmit ==
    /\ cursor < Len(script)
    /\ session.stdoutOn
    /\ LET j == LineEnd(script, cursor)
           r == stdoutOf(session, peer.session, args[1], SubSeq(script, cursor + 1, j))
       IN  /\ cursor' = j
           /\ session' = r[1]
           /\ peer' = [peer EXCEPT !.session = r[2]]
    /\ UNCHANGED <<installed, args, spawns, now, responses, script,
                   lastStderr, httpVars, clientVars>>

\* the second call's engine writes its next line
SecondEmit ==
    /\ peer.cursor < Len(peer.script)
    /\ peer.session.stdoutOn
    /\ LET j == LineEnd(peer.script, peer.cursor)
           r == stdoutOf(peer.session, session, peer.args[1],
                         SubSeq(peer.script, peer.cursor + 1, j))
       IN  /\ peer' = [peer EXCEPT !.session = r[1], !.cursor = j]
           /\ session' = r[2]
    /\ UNCHANGED <<installed, args, spawns, now, responses, script, cursor,
                   lastStderr, httpVars, clientVars>>

FirstTimeout ==
    /\ session.timerArmed
    /\ now >= session.timeoutMs
    /\ LET r == timeoutOf(session, peer.session)
       IN  session' = r[1] /\ peer' = [peer EXCEPT !.session = r[2]]
    /\ UNCHANGED <<installed, args, spawns, now, responses, script, cursor,
                   lastStderr, httpVars, clientVars>>

SecondTimeout ==
    /\ peer.session.timerArmed
    /\ now >= peer.session.timeoutMs
    /\ LET r == timeoutOf(peer.session, session)
       IN  peer' = [peer EXCEPT !.session = r[1]] /\ session' = r[2]
    /\ UNCHANGED <<installed, args, spawns, now, responses, script, cursor,
                   lastStderr, httpVars, clientVars>>

NextPair ==
    \/ FirstEmit
    \/ SecondEmit
    \/ FirstTimeout
    \/ SecondTimeout
    \/ Tick

PairSpec == InitPair /\ [][NextPair]_vars

(******************************* the client ********************************)
MaxPly == 3         \* plies after which the game is over
MaxInflight == 2    \* bot requests awaiting their response that are followed

serverVars == <<installed, args, spawns, session, now, responses, script, cursor,
                peer, lastStderr, httpVars>>

IllegalMoveMessage == "Stockfish returned an illegal move."
AnalysisFailedMessage == "Engine analysis failed."
InvalidMoveMessage == "Invalid move"    \* the Error chess.js throws

\* what the engine may name as bestmove, and the moves the rules allow
LegalMove == "e2e4"
UciMoves == {LegalMove, "e2e5", "(none)", "e2"}
UciLength(uci) == IF uci = "(none)" THEN 6 ELSE IF uci = "e2" THEN 2 ELSE 4

\* responses of POST /api/engine/analyze as fetch delivers them
Replies ==
    {[ok |-> TRUE, bestmove |-> Some(m), error |-> None] : m \in UciMoves}
    \cup {[ok |-> TRUE, bestmove |-> None, error |-> None],
          [ok |-> FALSE, bestmove |-> None, error |-> Some(TimeoutMessage)],
          [ok |-> FALSE, bestmove |-> None, error |-> None]}

parseUciMove(uci) ==
    IF uci = None \/ uci[1] = "(none)" \/ UciLength(uci[1]) < 4 THEN None ELSE uci

turn(a) == IF a.ply % 2 = 0 THEN "w" ELSE "b"
isGameOver(a) == a.ply >= MaxPly
botColor(a) == IF a.botSide = "white" THEN "w" ELSE "b"
isPlayerTurn(a) == ~a.playVsBot \/ turn(a) # botColor(a)

\* Chess.move: the move made, or no move
move(a, uci) ==
    IF uci = LegalMove /\ ~isGameOver(a) THEN Some([a EXCEPT !.ply = @ + 1]) ELSE None

\* the status line of a game that is over is one text here
getStatus(a) ==
    IF isGameOver(a) THEN "Game over."
    ELSE IF turn(a) = "w" THEN "White to move." ELSE "Black to move."

updateGameState(a, moved) ==
    [a EXCEPT !.fen = a.ply, !.engineError = IF moved THEN None ELSE @,
              !.currentPlayer = IF turn(a) = "w" THEN "white" ELSE "black",
              !.status = getStatus(a),
              !.timerRunning = IF isGameOver(a) THEN FALSE ELSE @]

\* the dependencies of the bot move effect
depsOf(a) == <<a.fen, a.playVsBot, a.botSide, a.engineLevel, a.available>>

\* the cleanup of the bot move effect: cancelled = true
cancelAll(reqs) == [i \in 1..Len(reqs) |-> [reqs[i] EXCEPT !.cancelled = TRUE]]

\* the effect watching the clocks: a clock at 0 stops the timer and names the
\* winner
clockEffect(a) ==
    IF a.timerRunning /\ (a.whiteTime <= 0 \/ a.blackTime <= 0)
    THEN [a EXCEPT !.timerRunning = FALSE,
                   !.status = IF a.currentPlayer = "white" THEN "Black wins on time!"
                              ELSE "White wins on time!"]
    ELSE a

\* the bot move effect: the dependencies having changed, React runs its
\* cleanup and the effect: <<App's state, the requests>>
botMoveEffect(a, reqs) ==
    IF depsOf(a) = a.deps THEN <<a, reqs>>
    ELSE LET a1 == [a EXCEPT !.deps = depsOf(a)]
             r1 == cancelAll(reqs)
         IN  IF ~a.playVsBot \/ ~a.available THEN <<a1, r1>>
             ELSE IF isGameOver(a) \/ a.botThinking \/ turn(a) # botColor(a)
                  THEN <<a1, r1>>
             ELSE <<[a1 EXCEPT !.botThinking = TRUE, !.engineError = None],
                    Append(r1, [fen |-> a.ply, cancelled |-> FALSE, response |-> None])>>

\* React renders and runs the effects whose dependencies have changed
render(a, reqs) == botMoveEffect(clockEffect(a), reqs)

\* an event handler or a continuation has left App in state a
Rendered(a, reqs) ==
    /\ Len(render(a, reqs)[2]) <= MaxInflight
    /\ app' = render(a, reqs)[1]
    /\ requests' = render(a, reqs)[2]
    /\ UNCHANGED serverVars

\* fetch('/api/engine/status') has answered
StatusFetched ==
    \E available \in BOOLEAN :
        /\ app.statusPending
        /\ Rendered([app EXCEPT !.statusPending = FALSE, !.available = available],
                    requests)

handlePlayVsBotToggle ==
    Rendered([app EXCEPT !.playVsBot = ~@, !.botThinking = FALSE,
                         !.engineError = None], requests)

handleBotSide ==
    \E side \in {"white", "black"} :
        Rendered([app EXCEPT !.botSide = side, !.botThinking = FALSE,
                             !.engineError = None], requests)

handleEngineLevel ==
    \E level \in {"medium", "aged"} :
        Rendered([app EXCEPT !.engineLevel = level], requests)

handleNewGame ==
    Rendered(updateGameState([app EXCEPT !.ply = 0, !.botThinking = FALSE,
                                         !.whiteTime = InitialSeconds,
                                         !.blackTime = InitialSeconds,
                                         !.timerRunning = TRUE,
                                         !.engineError = None], FALSE), requests)

\* the interval callback taking a second from both clocks
intervalBothClocks(a) ==
    [a EXCEPT !.whiteTime = Max(@ - 1, 0), !.blackTime = Max(@ - 1, 0)]

\* the interval callback: a second off the clock of currentPlayer
interval(a) ==
    [a EXCEPT !.whiteTime = IF a.currentPlayer = "white" THEN Max(@ - 1, 0) ELSE @,
              !.blackTime = IF a.currentPlayer = "black" THEN Max(@ - 1, 0) ELSE @]

\* setInterval(..., 1000) fires; it is set while timerRunning
SecondTick ==
    /\ app.timerRunning
    /\ Rendered(interval(app), requests)

\* the handlers refusing the user's input while the bot is thinking only
refusedWhileThinking(a) == a.playVsBot /\ a.botThinking

\* if (playVsBot && (!isPlayerTurn || botThinking)) of handleSquareClick,
\* handleDragStart and handleDrop
refused(a) == a.playVsBot /\ (~isPlayerTurn(a) \/ a.botThinking)

\* handleSquareClick / handleDrop reaching attemptMove with a legal move
attemptMove ==
    /\ ~refused(app)
    /\ move(app, LegalMove) # None
    /\ Rendered(updateGameState(move(app, LegalMove)[1], TRUE), requests)

\* the server answers a request of requestMove; requestMove resumes in the
\* same task, so no second response is taken before it has
FetchSettles ==
    \E i \in 1..Len(requests), reply \in Replies :
        /\ \A j \in 1..Len(requests) : requests[j].response = None
        /\ requests' = [requests EXCEPT ![i].response = Some(reply)]
        /\ UNCHANGED <<app, serverVars>>

Without(reqs, i) == SubSeq(reqs, 1, i - 1) \o SubSeq(reqs, i + 1, Len(reqs))

\* the catch block showing the error of a cancelled request too
caughtAlways(a, req, message) == [a EXCEPT !.engineError = Some(message)]

\* catch (error) { if (!cancelled) setEngineError(error.message) }
caught(a, req, message) ==
    IF req.cancelled THEN a ELSE [a EXCEPT !.engineError = Some(message)]

\* requestMove from the response on, under try: App's state at the finally
tried(a, req) ==
    LET reply == req.response[1]
        parsedMove == parseUciMove(reply.bestmove)
    IN  IF ~reply.ok
        THEN caught(a, req, IF reply.error # None THEN reply.error[1]
                            ELSE AnalysisFailedMessage)
        ELSE IF parsedMove = None THEN a
        ELSE IF move(a, parsedMove[1]) # None
             THEN updateGameState(move(a, parsedMove[1])[1], TRUE)
        ELSE caught(a, req, IF a.moveThrows THEN InvalidMoveMessage
                            ELSE IllegalMoveMessage)

\* requestMove after its await
requestMoveResumes ==
    \E i \in 1..Len(requests) :
        /\ requests[i].response # None
        /\ Rendered([tried(app, requests[i]) EXCEPT !.botThinking = FALSE],
                    Without(requests, i))

InitClient ==
    /\ installed = TRUE
    /\ args = None
    /\ spawns = 0
    /\ session = NoSession
    /\ now = 0
    /\ responses = <<>>
    /\ script = <<>>
    /\ cursor = 0
    /\ peer = NoPeer
    /\ lastStderr = None
    /\ incoming = None
    /\ statusReply = None
    /\ stockfishPath = None
    /\ app \in {MountedApp(throws) : throws \in BOOLEAN}
    /\ requests = <<>>

NextClient ==
    \/ StatusFetched
    \/ handlePlayVsBotToggle
    \/ handleBotSide
    \/ handleEngineLevel
    \/ handleNewGame
    \/ attemptMove
    \/ FetchSettles
    \/ requestMoveResumes

ClientSpec == InitClient /\ [][NextClient]_vars

\* two players at one board, the clocks running
NextClock ==
    \/ SecondTick
    \/ attemptMove
    \/ handleNewGame

InitClock == InitClient /\ ~app.moveThrows

ClockSpec == InitClock /\ [][NextClock]_vars

(***************************************************************************)
(*                               the claims                                *)
(***************************************************************************)
Spawned == spawns > 0
Settled == session.settled # <<>>
EndedBy(vias) == Settled /\ Outcome.via \in vias

\* C1: whatever the interleaving of stdout lines, stderr chunks, the process
\* 'error' event and the timer, resolve and reject are called at most once in
\* all per session: never both, never reject twice.
C1_AtMostOneOutcome == Len(session.settled) <= 1

\* a session the timer ended while its stdout and stderr listeners stay attached,
\* so that engine events keep racing with the delivered outcome
C1_Witness ==
    /\ EndedBy({"timeout"})
    /\ session.stdoutOn /\ session.stderrOn
    /\ Len(session.stdin) > 1

\* C2: every session that was started eventually has an outcome, whatever the
\* engine writes or does not write.
C2_EventuallySettled == (args # None) ~> Settled

\* the engine's last line never got its newline, and the timer ended the session
C2_Witness == EndedBy({"timeout"}) /\ session.buffer = PartialBest

\* max(250, movetime + 1500) ms have elapsed
DeadlinePassed ==
    now >= MinTimeoutMs /\ now - TimeoutSlackMs >= args[1].movetime

\* C3: if no bestmove line has ended the search when max(250, movetime + 1500)
\* ms have elapsed and the timer is no longer pending, the session has failed
\* with the timeout error and the engine has been killed; and the timeout
\* outcome is never delivered before that many ms have elapsed.
C3_Original ==
    Spawned =>
        /\ (DeadlinePassed /\ ~session.timerArmed /\ ~EndedBy({"bestmove"}))
            => (EndedBy({"timeout"}) /\ Outcome.message = TimeoutMessage
                /\ session.kills = 1)
        /\ EndedBy({"timeout"}) => DeadlinePassed

Deadline(movetime) == IF movetime + 1500 > 250 THEN movetime + 1500 ELSE 250

\* C4: the engine is killed exactly once when a bestmove line, stderr output
\* or the timer ends the session, never when the process 'error' event ends
\* it, never twice, and never before the outcome is decided.
C4_KillOncePerSession ==
    Spawned =>
        /\ session.kills <= 1
        /\ session.kills > 0 => (session.resolved /\ Settled)
        /\ EndedBy({"bestmove", "stderr", "timeout"}) => session.kills = 1
        /\ EndedBy({"error"}) => session.kills = 0

\* the timer killed an engine that had answered the handshake and sent a score
C4_Witness ==
    /\ EndedBy({"timeout"}) /\ session.kills = 1
    /\ Len(session.stdin) > 1 /\ session.latestScore # None

\* C5: once the session is resolved, no stdout line changes the stored
\* evaluation, depth, nodes or pv, and none makes the driver write a command.
C5_NoProcessingAfterEnd ==
    [][session.resolved =>
        /\ session'.latestScore = session.latestScore
        /\ session'.latestDepth = session.latestDepth
        /\ session'.latestNodes = session.latestNodes
        /\ session'.latestPv = session.latestPv
        /\ session'.stdin = session.stdin]_vars

(* what each scripted info line carries, read off the line by hand *)
Carried(line) ==
    IF line = LInfoA THEN
        [evaluation |-> Some([type |-> "cp", value |-> 35,
                              display |-> <<"+", "0", ".", "3", "5">>]),
         depth |-> Some(1), nodes |-> Some(100), pv |-> Some("e2e4 e7e5")]
    ELSE IF line = LInfoB THEN
        [evaluation |-> Some([type |-> "cp", value |-> -120,
                              display |-> <<"-", "1", ".", "2", "0">>]),
         depth |-> Some(2), nodes |-> Some(130), pv |-> Some("d2d4")]
    ELSE IF line = LInfoC THEN
        [evaluation |-> Some([type |-> "mate", value |-> 3, display |-> <<"M", "3">>]),
         depth |-> Some(3), nodes |-> None, pv |-> None]
    ELSE
        [evaluation |-> None, depth |-> None, nodes |-> None, pv |-> None]

Payload == Outcome.payload[1]

\* what the last info line of the run carries
LastCarried(run, field) ==
    IF run = <<>> THEN None ELSE Carried(run[Len(run)])[field]

\* what the most recent info line carrying the field carries
LatestCarried(run, field) ==
    LET I == {i \in 1..Len(run) : Carried(run[i])[field] # None}
    IN  IF I = {} THEN None
        ELSE Carried(run[CHOOSE i \in I : \A j \in I : j <= i])[field]

\* C6 as claimed: after uciok, readyok, info lines and 'bestmove e2e4 ponder
\* e7e5' the result has bestmove e2e4, ponder e7e5 and the evaluation, depth,
\* nodes and pv carried by the last info line.
C6_Original ==
    \A run \in InfoSearches :
        (script = ScriptOf[run] /\ EndedBy({"bestmove"})) =>
            /\ Payload.bestmove = Some("e2e4") /\ Payload.ponder = Some("e7e5")
            /\ Payload.evaluation = LastCarried(run, "evaluation")
            /\ Payload.depth = LastCarried(run, "depth")
            /\ Payload.nodes = LastCarried(run, "nodes")
            /\ Payload.pv = LastCarried(run, "pv")

\* C6 as amended: after uciok, readyok, info lines and 'bestmove e2e4 ponder
\* e7e5' the result has bestmove e2e4, ponder e7e5, and each of evaluation,
\* depth, nodes and pv is the value carried by the most recent info line that
\* carries that field (null when none does).
C6_LatestPerField ==
    \A run \in InfoSearches :
        (script = ScriptOf[run] /\ EndedBy({"bestmove"})) =>
            /\ Payload.bestmove = Some("e2e4") /\ Payload.ponder = Some("e7e5")
            /\ Payload.evaluation = LatestCarried(run, "evaluation")
            /\ Payload.depth = LatestCarried(run, "depth")
            /\ Payload.nodes = LatestCarried(run, "nodes")
            /\ Payload.pv = LatestCarried(run, "pv")

\* a search whose last info line carries neither nodes nor pv has resolved
C6_Witness ==
    /\ script = SearchOf(<<LInfoA, LInfoC>>) /\ EndedBy({"bestmove"})
    /\ Payload.depth = Some(3) /\ Payload.nodes = Some(100)

IsDigit(c) == \E d \in 0..9 : DigitChar[d] = c
RECURSIVE DigitsValue(_)
DigitsValue(cs) ==
    IF cs = <<>> THEN 0
    ELSE 10 * DigitsValue(SubSeq(cs, 1, Len(cs) - 1))
         + (CHOOSE d \in 0..9 : DigitChar[d] = cs[Len(cs)])
\* a decimal numeral of n: digits only, no leading zero
IsNumeral(cs, n) ==
    /\ Len(cs) >= 1
    /\ \A i \in 1..Len(cs) : IsDigit(cs[i])
    /\ (Len(cs) > 1 => cs[1] # "0")
    /\ DigitsValue(cs) = n

CpDisplayOk(d, v) ==
    /\ Len(d) >= 5
    /\ d[1] = (IF v >= 0 THEN "+" ELSE "-")
    /\ d[Len(d) - 2] = "."
    /\ IsDigit(d[Len(d) - 1]) /\ IsDigit(d[Len(d)])
    /\ \E whole \in 0..MaxNum :
        /\ IsNumeral(SubSeq(d, 2, Len(d) - 3), whole)
        /\ 100 * whole + DigitsValue(SubSeq(d, Len(d) - 1, Len(d))) = Abs(v)

MateDisplayOk(d, v) ==
    /\ Len(d) >= 2
    /\ d[1] = "M"
    /\ IF v < 0 THEN d[2] = "-" /\ IsNumeral(SubSeq(d, 3, Len(d)), -v)
       ELSE IsNumeral(SubSeq(d, 2, Len(d)), v)

\* C7: an info line with 'score cp v' gives {cp, v, v/100 with two decimals,
\* '+' in front when v >= 0 and '-' when v < 0}; one with 'score mate v' gives
\* {mate, v, 'M' and then v with its sign}; cp 35 is '+0.35', cp -120 is
\* '-1.20', mate 3 is 'M3'.
C7_ScoreDisplay ==
    \A type \in {"cp", "mate"}, v \in IntRange :
        (cursor = Len(script) /\ script = LF(ScoreLine(type, v))) =>
            /\ session.latestScore # None
            /\ session.latestScore[1].type = type
            /\ session.latestScore[1].value = v
            /\ type = "cp" => CpDisplayOk(session.latestScore[1].display, v)
            /\ type = "mate" => MateDisplayOk(session.latestScore[1].display, v)
            /\ (type = "cp" /\ v = 35)
                => session.latestScore[1].display = <<"+", "0", ".", "3", "5">>
            /\ (type = "cp" /\ v = -120)
                => session.latestScore[1].display = <<"-", "1", ".", "2", "0">>
            /\ (type = "mate" /\ v = 3)
                => session.latestScore[1].display = <<"M", "3">>

\* the line 'info depth 1 score cp -5' has been dispatched
C7_Witness ==
    /\ script = LF(ScoreLine("cp", -5)) /\ cursor = Len(script)
    /\ session.latestScore # None
    /\ session.latestScore[1].display = <<"-", "0", ".", "0", "5">>

Written(data) == {i \in 1..Len(session.stdin) : session.stdin[i] = data}

\* the go command the request calls for: depth wins whenever it is set
ClaimedGo(a) ==
    IF a.depth # None THEN "go depth " \o ToString(a.depth[1]) \o "\n"
    ELSE "go movetime " \o ToString(a.movetime) \o "\n"

\* C8: every readyok makes the driver write exactly one go command, right
\* after the position command: 'go depth <depth>' when the request sets a
\* depth (0 included), whatever its movetime, and 'go movetime <movetime>'
\* when it sets none.
C8_GoCommand ==
    Spawned =>
        \A i \in 1..Len(session.stdin) :
            \/ session.stdin[i] \in {"uci\n", "isready\n", ClaimedGo(args[1])}
            \/ /\ session.stdin[i] = positionCommand(args[1])
               /\ i < Len(session.stdin)
               /\ session.stdin[i + 1] = ClaimedGo(args[1])

RECURSIVE Spaced(_)
\* every token with one space in front of it
Spaced(tokens) ==
    IF tokens = <<>> THEN "" ELSE " " \o Head(tokens) \o Spaced(Tail(tokens))

ClaimedPosition(a) ==
    (IF a.fen = "startpos" THEN "position startpos" ELSE "position fen " \o a.fen)
    \o (IF a.moves = <<>> THEN "" ELSE " moves" \o Spaced(a.moves))
    \o "\n"

\* C9: the position command written on readyok is 'position startpos' for the
\* initial-layout marker and 'position fen <fen>' otherwise, with no moves
\* clause for an empty token list and otherwise ' moves ' and the tokens in
\* their order, one space between two.
C9_PositionCommand ==
    Spawned =>
        /\ \A i \in 1..Len(session.stdin) :
            session.stdin[i] \in
                {"uci\n", "isready\n", goCommand(args[1]), ClaimedPosition(args[1])}
        /\ \A i \in Written(goCommand(args[1])) :
            i > 1 /\ session.stdin[i - 1] = ClaimedPosition(args[1])

\* a readyok was answered for a request with a fen and two move tokens
C9_Witness ==
    /\ Spawned
    /\ args[1].moves = <<"e2e4", "e7e5">>
    /\ Written("position fen 4k3/8/8/8/8/8/8/4K3 w - - 0 1 moves e2e4 e7e5\n") # {}

\* C10: with no engine binary at the resolved path, analyzePosition rejects
\* with the 'engine not found' error, spawns nothing and arms no timer, and
\* the endpoint answers 503 with that message.
C10_NotInstalled ==
    (~installed /\ args # None) =>
        /\ spawns = 0
        /\ ~session.timerArmed
        /\ session.stdin = <<>>
        /\ session.settled =
            <<[kind |-> "reject", via |-> "notfound", payload |-> None,
               message |-> "Stockfish engine not found. Download it or set STOCKFISH_PATH."]>>
        /\ \A i \in 1..Len(responses) :
            /\ responses[i].status = 503
            /\ responses[i].error
                = "Stockfish engine not found. Download it or set STOCKFISH_PATH."
        /\ Len(responses) <= 1

\* the endpoint has answered a request made while the engine was missing
C10_Witness == ~installed /\ args # None /\ Len(responses) = 1

PeerOutcome == Head(peer.session.settled)
PeerEndedBy(vias) == peer.session.settled # <<>> /\ PeerOutcome.via \in vias
Gathered(payload, run) ==
    /\ payload.bestmove = Some("e2e4") /\ payload.ponder = Some("e7e5")
    /\ payload.evaluation = LatestCarried(run, "evaluation")
    /\ payload.depth = LatestCarried(run, "depth")
    /\ payload.nodes = LatestCarried(run, "nodes")
    /\ payload.pv = LatestCarried(run, "pv")

\* C11: of two sessions running at the same time, with their events interleaved
\* in any order, each one's result and commands are those of its own request
\* and its own engine's output, and a step that changes one session (an info
\* line, its end, the kill of its engine) leaves the other session as it was.
C11_SessionsIndependent ==
    /\ [](\A run \in PairRuns :
            /\ (script = ScriptOf[run] /\ EndedBy({"bestmove"})) =>
                    /\ Gathered(Payload, run)
                    /\ session.stdin = <<"uci\n", "isready\n", "position startpos\n",
                                         "go movetime 600\n">>
            /\ (peer.script = ScriptOf[run] /\ PeerEndedBy({"bestmove"})) =>
                    /\ Gathered(PeerOutcome.payload[1], run)
                    /\ peer.session.stdin = <<"uci\n", "isready\n",
                                              "position startpos\n", "go depth 5\n">>)
    /\ [][/\ session' # session => peer' .session = peer.session
          /\ peer' .session # peer.session => session' = session]_vars

\* the second session was ended by its timer and its engine killed while the
\* first, fed other info lines, is still searching with its own figures
C11_Witness ==
    /\ PeerEndedBy({"timeout"}) /\ peer.session.kills = 1
    /\ peer.session.latestDepth = Some(1)
    /\ ~session.resolved /\ session.kills = 0
    /\ session.latestDepth = Some(2)

Handshake(a) == <<"uci\n", "isready\n", positionCommand(a), goCommand(a)>>

\* C12: the commands written to the engine are a prefix of uci, isready,
\* position, go: uci first, isready only after a uciok, position and go only
\* after a readyok that follows the uciok, and each command at most once (a
\* repeated or early uciok or readyok writes nothing).
C12_CommandOrder ==
    Spawned =>
        \E n \in 0..4 : session.stdin = SubSeq(Handshake(args[1]), 1, n)

SegFault == <<"Segmentation", " ", "fault", "\n">>
WhiteOnly(chunk) == \A i \in 1..Len(chunk) : chunk[i] \in {" ", "\r", "\n"}
EarlyStderr == lastStderr # None /\ ~lastStderr[1].late

\* C13 as claimed: if the engine writes anything at all to stderr before the
\* session is resolved, the session fails with that message and the engine is
\* killed.
C13_Original ==
    EarlyStderr =>
        /\ EndedBy({"stderr"})
        /\ session.kills = 1
        /\ lastStderr[1].chunk = SegFault => Outcome.message = "Segmentation fault"

\* C13 as amended: if the engine writes to stderr, before the session is
\* resolved, a chunk holding more than whitespace, the session fails with the
\* chunk's text, trimmed, as message and the engine is killed; a chunk of
\* whitespace only, and any chunk arriving after the session is resolved,
\* changes nothing.
C13_StderrFails ==
    /\ []((EarlyStderr /\ lastStderr[1].chunk = SegFault) =>
            /\ EndedBy({"stderr"})
            /\ Outcome.message = "Segmentation fault"
            /\ session.kills = 1)
    /\ [][(lastStderr' # lastStderr
              /\ (lastStderr'[1].late \/ WhiteOnly(lastStderr'[1].chunk)))
            => session' = session]_vars

\* the engine answered uciok and then wrote a message to stderr, which failed
\* the session
C13_Witness ==
    /\ EarlyStderr /\ lastStderr[1].chunk = SegFault
    /\ EndedBy({"stderr"})
    /\ Len(session.stdin) > 1

\* C14: every analyze request gets exactly one response: 200 with the analysis
\* result when the session resolves, 503 with the failure's message as error
\* when it fails (engine missing, launch error, stderr output, timeout); no
\* failure gives 200 and no success 503.
C14_OneResponse ==
    /\ [](/\ Len(responses) <= 1
          /\ responses # <<>> =>
                /\ Settled
                /\ Outcome.kind = "resolve" =>
                        /\ responses[1].status = 200
                        /\ responses[1].result = Outcome.payload
                /\ Outcome.kind = "reject" =>
                        /\ responses[1].status = 503
                        /\ responses[1].result = None
                        /\ responses[1].error = Outcome.message)
    /\ ((args # None) ~> (Len(responses) = 1))

\* a request whose engine failed to launch was answered 503 with that error
C14_Witness ==
    /\ EndedBy({"error"})
    /\ responses = <<[status |-> 503, result |-> None, error |-> SpawnErrorMessage]>>

Asked == incoming[1]
AskedMovetime == IF Asked.movetime.kind = "finite" THEN Asked.movetime.n ELSE 600

\* C15: the timeout of a session is max(250, movetime + 1500), movetime being
\* the request's (600 when absent), whether or not a depth was requested; no
\* finite movetime gives a timeout below 250 ms.
C15_TimeoutFromMovetime ==
    Spawned =>
        /\ session.timeoutMs >= 250
        /\ AskedMovetime <= MaxTimerMs - 1500 =>
                session.timeoutMs = Deadline(AskedMovetime)

\* C16: the endpoint hands analyzePosition 'startpos' for a fen that is
\* missing, not a string, empty or blank, and any other fen trimmed; the empty
\* list for moves that are not an array; no depth for a depth that is not a
\* finite number; 600 for a movetime that is not a finite number.
C16_Normalized ==
    args # None =>
        /\ args[1].fen =
                IF Asked.fen \in {Str(FenWords), Str(<<" ">> \o FenWords \o <<" ">>)}
                THEN "4k3/8/8/8/8/8/8/4K3 w - - 0 1" ELSE "startpos"
        /\ args[1].moves = IF Asked.moves.isArray THEN Asked.moves.items ELSE <<>>
        /\ args[1].depth =
                IF Asked.depth \in {Num(0), Num(5)} THEN Some(Asked.depth.n) ELSE None
        /\ args[1].movetime = AskedMovetime

\* a FEN sent with blanks around it reached analyzePosition trimmed, with the
\* moves sent and the default movetime
C16_Witness ==
    /\ args # None
    /\ Asked.fen = Str(<<" ">> \o FenWords \o <<" ">>)
    /\ Asked.movetime = Other /\ Asked.depth = Other
    /\ args[1] = [fen |-> "4k3/8/8/8/8/8/8/4K3 w - - 0 1", moves |-> <<"e2e4", "e7e5">>,
                  depth |-> None, movetime |-> 600]
    /\ session.stdin = <<"uci\n">>

\* C17: GET /api/engine/status spawns nothing and starts or alters no session;
\* it answers with the availability, the download URL, and as enginePath the
\* base name of the engine path when the engine is available, null otherwise.
C17_StatusReadOnly ==
    /\ [](statusReply # None =>
            /\ statusReply[1].available = installed
            /\ statusReply[1].downloadUrl = STOCKFISH_WINDOWS_URL
            /\ statusReply[1].enginePath =
                    IF ~installed THEN None
                    ELSE IF stockfishPath = Some(<<"opt", "engines", "sf17">>)
                         THEN Some("sf17") ELSE Some("stockfish.exe"))
    /\ [][statusReply' # statusReply =>
            UNCHANGED <<installed, args, spawns, session, responses>>]_vars

\* the status was asked for while a session was running; the engine is the one
\* STOCKFISH_PATH names
C17_Witness ==
    /\ Spawned /\ ~Settled
    /\ statusReply # None
    /\ statusReply[1].available /\ statusReply[1].enginePath = Some("sf17")

Delivered == SubSeq(script, 1, cursor)
Newlines == {i \in 1..cursor : script[i] = "\n"}
LastNewline == IF Newlines = {} THEN 0 ELSE CHOOSE i \in Newlines : \A j \in Newlines : j <= i
\* the session that received, as one chunk, all that has been delivered
OneChunk == onStdoutData(startSession(args[1]), args[1], Delivered)

\* C19: a line is dispatched only once its newline has arrived, what follows
\* the last newline is held back and joined with the next chunk, and '\r\n'
\* ends a line as '\n' does: however the engine's output up to its bestmove
\* line is cut into chunks, the commands written, the figures gathered and the
\* result are those of the same output arriving as one chunk.
C19_Framing ==
    /\ Newlines = {} =>
            /\ session.stdin = <<"uci\n">>
            /\ session.latestScore = None /\ session.latestDepth = None
    /\ (script \in SearchScripts /\ Newlines # {}) => session.stdin[2] = "isready\n"
    /\ session.stdin = OneChunk.stdin
    /\ session.latestScore = OneChunk.latestScore
    /\ session.latestDepth = OneChunk.latestDepth
    /\ session.latestNodes = OneChunk.latestNodes
    /\ session.latestPv = OneChunk.latestPv
    /\ EndedBy({"bestmove"}) => session.settled = OneChunk.settled

\* the lines of the run that have been delivered with their newline
Dispatched(run) ==
    LET n == Cardinality(Newlines) - 2
    IN  SubSeq(run, 1, IF n < 0 THEN 0 ELSE IF n > Len(run) THEN Len(run) ELSE n)

\* C20: an info line overwrites each of evaluation, depth, nodes and pv it
\* carries and keeps each one it does not carry; a line that is none of uciok,
\* readyok, info, bestmove changes no field and writes no command; a field no
\* info line carried is null in the result.
C20_FieldsApart ==
    \A run \in InfoSearches \cup StrayRuns :
        script = ScriptOf[run] =>
            /\ session.latestScore = LatestCarried(Dispatched(run), "evaluation")
            /\ session.latestDepth = LatestCarried(Dispatched(run), "depth")
            /\ session.latestNodes = LatestCarried(Dispatched(run), "nodes")
            /\ session.latestPv = LatestCarried(Dispatched(run), "pv")
            /\ Len(session.stdin) =
                    IF Cardinality(Newlines) = 0 THEN 1
                    ELSE IF Cardinality(Newlines) = 1 THEN 2 ELSE 4
            /\ EndedBy({"bestmove"}) =>
                    /\ Payload.evaluation = LatestCarried(run, "evaluation")
                    /\ Payload.depth = LatestCarried(run, "depth")
                    /\ Payload.nodes = LatestCarried(run, "nodes")
                    /\ Payload.pv = LatestCarried(run, "pv")

\* a search reported on by one line that is not an info line, though it has
\* the words of one, resolved with all four fields null
C20_Witness ==
    /\ script = SearchOf(<<LStray>>) /\ EndedBy({"bestmove"})
    /\ Payload.evaluation = None /\ Payload.depth = None
    /\ Payload.nodes = None /\ Payload.pv = None

\* requestMove resumes with a move the rules library rejects
Rejects(i) ==
    /\ i \in 1..Len(requests)
    /\ requests[i].response # None
    /\ requests[i].response[1].ok
    /\ requests[i].response[1].bestmove = Some("e2e5")
    /\ requests' = Without(requests, i)

\* C18 as claimed: when the rules library rejects the move the engine returned,
\* the position stays as it was, the error 'Stockfish returned an illegal
\* move.' is shown and the bot-thinking flag is cleared.
C18_Original ==
    [][\A i \in 1..MaxInflight :
         Rejects(i) =>
            /\ app' .ply = app.ply
            /\ app' .engineError = Some("Stockfish returned an illegal move.")
            /\ ~app' .botThinking]_vars

\* C18 as amended: when the rules library rejects the move the engine returned,
\* the position stays as it was and the bot-thinking flag is cleared; if the
\* effect that made the request has been cleaned up meanwhile, no error is
\* shown; otherwise the error shown is 'Stockfish returned an illegal move.'
\* when the library rejects by returning null and the library's own message
\* when it rejects by throwing.
C18_IllegalEngineMove ==
    [][\A i \in 1..MaxInflight :
         Rejects(i) =>
            /\ app' .ply = app.ply /\ app' .fen = app.fen
            /\ ~app' .botThinking
            /\ app' .engineError =
                    IF requests[i].cancelled THEN app.engineError
                    ELSE IF app.moveThrows THEN Some("Invalid move")
                    ELSE Some("Stockfish returned an illegal move.")]_vars

\* the bot's turn came, the engine named an illegal move, and the error is shown
C18_Witness ==
    /\ app.playVsBot /\ turn(app) = botColor(app)
    /\ requests = <<>> /\ ~app.botThinking
    /\ app.engineError = Some("Stockfish returned an illegal move.")

\* the position and go commands have been written, in this order
Searching ==
    \E i, j \in 1..Len(session.stdin) :
        /\ i < j
        /\ session.stdin[i] = positionCommand(args[1])
        /\ session.stdin[j] = goCommand(args[1])

\* C21: a session resolves with a result only after it has written its
\* position and go commands: a bestmove line arriving before readyok, or
\* before uciok, does not resolve the session.
C21_ResolvedFromSearching == EndedBy({"bestmove"}) => Searching

\* C22: every result a session resolves with carries a best move: a line
\* beginning with 'bestmove' that has no move after it ('bestmove' alone,
\* 'bestmovexyz') gives no result whose bestmove is null.
C22_BestmoveNotNull == EndedBy({"bestmove"}) => Payload.bestmove # None

RECURSIVE NewlinesIn(_)
\* the number of newline characters of a text
NewlinesIn(text) ==
    IF text = "" THEN 0
    ELSE (IF SubSeq(text, 1, 1) = "\n" THEN 1 ELSE 0)
         + NewlinesIn(SubSeq(text, 2, Len(text)))

\* the text is one line, newline included, that starts with the word
OneLine(text, word) ==
    /\ NewlinesIn(text) = 1
    /\ SubSeq(text, Len(text), Len(text)) = "\n"
    /\ Len(text) > Len(word)
    /\ SubSeq(text, 1, Len(word)) = word

\* C23: whatever fen and move tokens an accepted request carries (a newline
\* inside one included), every write to the engine's input is exactly one
\* line, and that line is one of uci, isready, position ..., go ...: no
\* further line of the caller's choosing reaches the engine.
C23_NoCommandInjection ==
    Spawned =>
        \A i \in 1..Len(session.stdin) :
            \/ session.stdin[i] \in {"uci\n", "isready\n"}
            \/ OneLine(session.stdin[i], "position ")
            \/ OneLine(session.stdin[i], "go ")

\* this step is requestMove resuming on the response of request i
ResumesOn(i) ==
    /\ i \in 1..Len(requests)
    /\ requests[i].response # None
    /\ <<app', requests'>> =
            render([tried(app, requests[i]) EXCEPT !.botThinking = FALSE],
                   Without(requests, i))

\* the position request i was made for is no longer the current one, or the
\* bot has been switched off or to the other side since
Outdated(i) ==
    \/ requests[i].fen # app.ply
    \/ ~app.playVsBot
    \/ turn(app) # botColor(app)

\* C24: an engine move is applied only if the position it was requested for
\* is still the current one: after a new game, a switch of the bot's side or
\* the bot being switched off while the request was in flight, the move of
\* the late response is not applied to the game.
C24_NoLateMove ==
    [][\A i \in 1..MaxInflight :
         (ResumesOn(i) /\ Outdated(i)) => app' .ply = app.ply]_vars

\* C25: at most one bot request is in flight at any time, whatever new-game,
\* bot-toggle, bot-side, level and move events have happened.
C25_OneRequestInFlight == Len(requests) <= 1

\* C26: while playing against the bot, a square click, a drag start or a drop
\* made when it is the bot's turn or while the bot is thinking never changes
\* the position: there, only a move of the engine adds a ply.
C26_NoMoveOutOfTurn ==
    [][(/\ app.playVsBot
        /\ turn(app) = botColor(app) \/ app.botThinking
        /\ app' .ply = app.ply + 1)
            => \E i \in 1..MaxInflight : ResumesOn(i)]_vars

\* the user has moved, it is the bot's turn, and no engine is there to move:
\* the board takes no input
C26_Witness ==
    /\ app.playVsBot /\ ~app.available /\ ~app.botThinking
    /\ app.ply = 1 /\ turn(app) = botColor(app)
    /\ requests = <<>>

\* a second goes off the clock of the side to move, the other clock stays
ClockTicks ==
    /\ app.timerRunning
    /\ IF turn(app) = "w"
       THEN app' .whiteTime = app.whiteTime - 1 /\ app' .blackTime = app.blackTime
       ELSE app' .blackTime = app.blackTime - 1 /\ app' .whiteTime = app.whiteTime

\* a new game is started
ClocksReset ==
    /\ app' .ply = 0 /\ app' .timerRunning
    /\ app' .whiteTime = 600 /\ app' .blackTime = 600

\* C27: a tick takes one second from the clock of the side to move and leaves
\* the other as it is; no clock goes below 0; when a clock reaches 0 the timer
\* stops and the opponent is declared the winner on time; and while the timer
\* is stopped no clock changes until a new game is started.
C27_Clocks ==
    /\ [](/\ app.whiteTime >= 0 /\ app.blackTime >= 0
          /\ (app.whiteTime = 0 \/ app.blackTime = 0) => ~app.timerRunning)
    /\ [][/\ (app' .whiteTime # app.whiteTime \/ app' .blackTime # app.blackTime)
                => (ClockTicks \/ ClocksReset)
          /\ (app.whiteTime > 0 /\ app' .whiteTime = 0)
                => (~app' .timerRunning /\ app' .status = "Black wins on time!")
          /\ (app.blackTime > 0 /\ app' .blackTime = 0)
                => (~app' .timerRunning /\ app' .status = "White wins on time!")]_vars

\* both sides have moved and used time, White's clock has run out, the timer
\* is stopped and Black is declared the winner
C27_Witness ==
    /\ app.ply = 2 /\ app.whiteTime = 0 /\ app.blackTime \in 1..599
    /\ ~app.timerRunning /\ app.status = "Black wins on time!"
====
